---- MODULE Spec2Model ----
(***************************************************************************)
(* Model of neon's Node-API asynchronous work wrapper                      *)
(* (crates/neon-runtime/src/napi/async_work.rs).                           *)
(*                                                                         *)
(* One task is one call of `schedule`.  The owning (JavaScript) thread     *)
(* runs `schedule` and `call_complete`, one at a time; pool threads run    *)
(* `call_execute`, one thread per work item, in parallel with everything   *)
(* else.  The host (Node-API) is the collaborator that creates, queues,    *)
(* cancels and delivers work items; its steps are part of the actions      *)
(* that model the calls into it.                                           *)
(***************************************************************************)
EXTENDS Integers, Sequences, FiniteSets, TLC

\* Bounds of the model.
NumTasks == 2
MaxInput == 0
NumInstances == 2
NumResources == 2

Tasks == 1..NumTasks
Handles == 1..NumTasks
Instances == 1..NumInstances
Queues == 1..NumInstances
Resources == 1..NumResources

\* The calls of schedule the model makes: the input and the user `execute`
\* function (a fn pointer, no captured state).  schedule(5, |x| x * 2, ..) is
\* the scenario of the module documentation; the others pass |x| x + 1.
Calls ==
    {[input |-> 5, execute |-> "double"]}
        \cup {[input |-> i, execute |-> "succ"] : i \in 0..MaxInput}

\* napi::Status values the model distinguishes.
OtherStatus == {"GenericFailure", "InvalidArg"}

VARIABLES
    pc,         \* pc[t]: position of the call schedule(t) on the owning thread
    ePc,        \* ePc[t]: position of call_execute for task t on its pool thread
    cPc,        \* cPc[t]: position of call_complete for task t on the owning thread
    box,        \* box[t]: allocation status of the Box<Data> of task t
    data,       \* data[t]: the fields of Data<T, O> of task t
    frame,      \* frame[t]: locals of the trampolines running for task t
    works,      \* works[h]: the host's napi_async_work behind handle h
    nextHandle, \* the next handle the host hands out
    owning,     \* the task whose code occupies the owning thread, 0 when idle
    aborted,    \* the process was terminated by a panic inside a trampoline
    log,        \* log[t]: history of the events of task t, in order
    \* src/lifecycle.rs
    slot,       \* slot[i]: the host's instance-data slot of runtime instance i
    nextId,     \* the static NEXT_ID of InstanceId::next
    tsfn,       \* tsfn[q]: the ThreadsafeFunction objects (Deferred-Release Queues)
    torn,       \* torn[i]: the environment of instance i has been torn down
    gPc,        \* gPc[i]: position of the InstanceData call running on i's owning thread
    gLocal,     \* gLocal[i]: the locals of that call
    res,        \* res[r]: the owning-thread-confined resources (Root, Deferred)
    hist,       \* hist[i]: what the InstanceData calls on instance i returned and did
    \* State<T, O> on its own
    st,         \* a State value the transition functions are applied to
    yields      \* the Options the calls on it returned, in order

asyncVars == <<pc, ePc, cPc, box, data, frame, works, nextHandle, owning, aborted, log>>
lifeVars == <<slot, nextId, tsfn, torn, gPc, gLocal, res, hist>>
unitVars == <<st, yields>>
vars == <<asyncVars, lifeVars, unitVars>>

----------------------------------------------------------------------------
\* Option<T>
None == [some |-> FALSE, val |-> 0]
Some(v) == [some |-> TRUE, val |-> v]

\* enum State<T, O>
Input(v) == [tag |-> "Input", val |-> v]
Executing == [tag |-> "Executing", val |-> 0]
Output(v) == [tag |-> "Output", val |-> v]

\* take_execute_input replacing the state in the Input arm only: any other
\* state is preserved.
take_execute_input_keep_other(s) ==
    [self |-> IF s.tag = "Input" THEN Executing ELSE s,
     ret |-> IF s.tag = "Input" THEN Some(s.val) ELSE None]

\* take_execute_input without the mem::replace: the state stays as it was.
take_execute_input_no_replace(s) ==
    [self |-> s,
     ret |-> IF s.tag = "Input" THEN Some(s.val) ELSE None]

\* take_execute_input matching on Output instead of Input.
take_execute_input_wrong_variant(s) ==
    [self |-> Executing,
     ret |-> IF s.tag = "Output" THEN Some(s.val) ELSE None]

\* State::take_execute_input: mem::replace(self, Executing), then match on the
\* old value.  `self` is the state left behind, `ret` the returned Option.
take_execute_input(s) ==
    [self |-> Executing,
     ret |-> IF s.tag = "Input" THEN Some(s.val) ELSE None]

\* into_output matching the wrong variant.
into_output_wrong_variant(s) ==
    IF s.tag = "Input" THEN Some(s.val) ELSE None

\* State::into_output: consumes the state.
into_output(s) ==
    IF s.tag = "Output" THEN Some(s.val) ELSE None

\* The user's execute function behind the fn pointer f.
Execute(f, x) ==
    IF f = "double" THEN x * 2 ELSE x + 1

\* An event of the history.
Ev(e, v, s, th) == [ev |-> e, val |-> v, st |-> s, thread |-> th]

\* How often event e occurred for task t, where it occurred first, and whether
\* it occurred with status (or tag) s.
Count(t, e) == Cardinality({i \in DOMAIN log[t] : log[t][i].ev = e})
Pos(t, e) == CHOOSE i \in DOMAIN log[t] : log[t][i].ev = e
Has(t, e, s) == \E i \in DOMAIN log[t] : log[t][i].ev = e /\ log[t][i].st = s

\* The user's complete function behind the fn pointer cb, called with value v
\* on thread th: it records the value.
Complete(l, cb, v, th) ==
    [l EXCEPT ![cb] = Append(@, Ev("complete", v, "", th))]

NoFrame == [input |-> None, output |-> None, state |-> Executing,
            complete |-> 0, work |-> 0, status |-> ""]
NoData == [state |-> Executing, execute |-> "", complete |-> 0, work |-> 0]
NoWork == [st |-> "free", data |-> 0]

\* Tasks are numbered in the order of their schedule calls.
NextTask == Cardinality({t \in Tasks : pc[t] # "none"}) + 1

\* The handle the host created for the work whose data pointer is t (0 if none).
HandleOf(t) ==
    IF \E h \in Handles : works[h].data = t
    THEN CHOOSE h \in Handles : works[h].data = t
    ELSE 0

InitAsync ==
    /\ pc = [t \in Tasks |-> "none"]
    /\ ePc = [t \in Tasks |-> "idle"]
    /\ cPc = [t \in Tasks |-> "idle"]
    /\ box = [t \in Tasks |-> "unalloc"]
    /\ data = [t \in Tasks |-> NoData]
    /\ frame = [t \in Tasks |-> NoFrame]
    /\ works = [h \in Handles |-> NoWork]
    /\ nextHandle = 1
    /\ owning = 0
    /\ aborted = FALSE
    /\ log = [t \in Tasks |-> <<>>]

----------------------------------------------------------------------------
\* schedule, lines 29-39: Box::new(Data { state: Input(input), execute,
\* complete, work: null }) and the pointer to its work field.
ScheduleBox(t) ==
    /\ ~aborted
    /\ UNCHANGED <<lifeVars, unitVars>>
    /\ owning = 0
    /\ pc[t] = "none"
    /\ t = NextTask
    /\ \E c \in Calls :
        data' = [data EXCEPT ![t] =
                    [state |-> Input(c.input), execute |-> c.execute,
                     complete |-> t, work |-> 0]]
    /\ box' = [box EXCEPT ![t] = "live"]
    /\ pc' = [pc EXCEPT ![t] = "boxed"]
    /\ owning' = t
    /\ log' = [log EXCEPT ![t] = Append(@, Ev("alloc", data'[t].state.val, data'[t].execute, "owning"))]
    /\ UNCHANGED <<ePc, cPc, frame, works, nextHandle, aborted>>

\* schedule handing the host a pointer to a copy of the work field: the new
\* handle does not reach the record.
ScheduleCreateStaleWork(t) ==
    /\ ~aborted
    /\ UNCHANGED <<lifeVars, unitVars>>
    /\ owning = t
    /\ pc[t] = "boxed"
    /\ \/ /\ works' = [works EXCEPT ![nextHandle] = [st |-> "created", data |-> t]]
          /\ nextHandle' = nextHandle + 1
          /\ pc' = [pc EXCEPT ![t] = "created"]
          /\ log' = [log EXCEPT ![t] = Append(@, Ev("create", nextHandle, "Ok", "owning"))]
          /\ UNCHANGED <<owning, data>>
       \/ /\ \E status \in OtherStatus :
                log' = [log EXCEPT ![t] = Append(@, Ev("create", 0, status, "owning"))]
          /\ pc' = [pc EXCEPT ![t] = "panicked"]
          /\ owning' = 0
          /\ UNCHANGED <<works, data, nextHandle>>
    /\ UNCHANGED <<ePc, cPc, box, frame, aborted>>

\* schedule without the assertion on the status of create_async_work.
ScheduleCreateNoAssert(t) ==
    /\ ~aborted
    /\ UNCHANGED <<lifeVars, unitVars>>
    /\ owning = t
    /\ pc[t] = "boxed"
    /\ \/ /\ works' = [works EXCEPT ![nextHandle] = [st |-> "created", data |-> t]]
          /\ data' = [data EXCEPT ![t].work = nextHandle]
          /\ nextHandle' = nextHandle + 1
          /\ log' = [log EXCEPT ![t] = Append(@, Ev("create", nextHandle, "Ok", "owning"))]
       \/ /\ \E status \in OtherStatus :
                log' = [log EXCEPT ![t] = Append(@, Ev("create", 0, status, "owning"))]
          /\ UNCHANGED <<works, data, nextHandle>>
    /\ pc' = [pc EXCEPT ![t] = "created"]
    /\ UNCHANGED <<ePc, cPc, box, frame, owning, aborted>>

\* schedule, lines 42-53: create_async_work(.., call_execute, call_complete,
\* Box::into_raw(data), work) and the assertion on its status.  The host writes
\* the new handle through `work` only when it succeeds.
ScheduleCreate(t) ==
    /\ ~aborted
    /\ UNCHANGED <<lifeVars, unitVars>>
    /\ owning = t
    /\ pc[t] = "boxed"
    /\ \/ /\ works' = [works EXCEPT ![nextHandle] = [st |-> "created", data |-> t]]
          /\ data' = [data EXCEPT ![t].work = nextHandle]
          /\ nextHandle' = nextHandle + 1
          /\ pc' = [pc EXCEPT ![t] = "created"]
          /\ log' = [log EXCEPT ![t] = Append(@, Ev("create", nextHandle, "Ok", "owning"))]
          /\ UNCHANGED owning
       \/ /\ \E status \in OtherStatus :
                log' = [log EXCEPT ![t] = Append(@, Ev("create", 0, status, "owning"))]
          /\ pc' = [pc EXCEPT ![t] = "panicked"]
          /\ owning' = 0
          /\ UNCHANGED <<works, data, nextHandle>>
    /\ UNCHANGED <<ePc, cPc, box, frame, aborted>>

\* schedule, line 56: queue_async_work(env, *work).
ScheduleQueue(t) ==
    /\ ~aborted
    /\ UNCHANGED <<lifeVars, unitVars>>
    /\ owning = t
    /\ pc[t] = "created"
    /\ LET h == data[t].work IN
       \/ /\ works' = [works EXCEPT ![h].st = "queued"]
          /\ pc' = [pc EXCEPT ![t] = "queued"]
          /\ log' = [log EXCEPT ![t] = Append(@, Ev("queue", h, "Ok", "owning"))]
       \/ /\ \E status \in OtherStatus :
                log' = [log EXCEPT ![t] = Append(@, Ev("queue", h, status, "owning"))]
          /\ pc' = [pc EXCEPT ![t] = "qfail"]
          /\ UNCHANGED works
    /\ UNCHANGED <<ePc, cPc, box, data, frame, nextHandle, owning, aborted>>

\* schedule waiting for the task's completion before it returns.
ScheduleReturnBlocking(t) ==
    /\ ~aborted
    /\ UNCHANGED <<lifeVars, unitVars>>
    /\ owning = t
    /\ pc[t] = "queued"
    /\ cPc[t] = "done"
    /\ pc' = [pc EXCEPT ![t] = "returned"]
    /\ owning' = 0
    /\ UNCHANGED <<ePc, cPc, box, data, frame, works, nextHandle, aborted, log>>

\* schedule clearing the record's work field after the task was queued.
ScheduleReturnClearWork(t) ==
    /\ ~aborted
    /\ UNCHANGED <<lifeVars, unitVars>>
    /\ owning = t
    /\ pc[t] = "queued"
    /\ data' = [data EXCEPT ![t].work = 0]
    /\ pc' = [pc EXCEPT ![t] = "returned"]
    /\ owning' = 0
    /\ UNCHANGED <<ePc, cPc, box, frame, works, nextHandle, aborted, log>>

\* schedule, lines 57 and 64: queueing succeeded, schedule returns.
ScheduleReturn(t) ==
    /\ ~aborted
    /\ UNCHANGED <<lifeVars, unitVars>>
    /\ owning = t
    /\ pc[t] = "queued"
    /\ pc' = [pc EXCEPT ![t] = "returned"]
    /\ owning' = 0
    /\ UNCHANGED <<ePc, cPc, box, data, frame, works, nextHandle, aborted, log>>

\* schedule, line 60: queueing failed, delete_async_work(env, *work).
ScheduleDelete(t) ==
    /\ ~aborted
    /\ UNCHANGED <<lifeVars, unitVars>>
    /\ owning = t
    /\ pc[t] = "qfail"
    /\ LET h == data[t].work IN
       /\ works' = [works EXCEPT ![h].st = "deleted"]
       /\ log' = [log EXCEPT ![t] = Append(@, Ev("delete", h, "", "owning"))]
    /\ pc' = [pc EXCEPT ![t] = "qdeleted"]
    /\ UNCHANGED <<ePc, cPc, box, data, frame, nextHandle, owning, aborted>>

\* schedule without the assertion on the queueing status: it returns normally.
ScheduleSwallow(t) ==
    /\ ~aborted
    /\ UNCHANGED <<lifeVars, unitVars>>
    /\ owning = t
    /\ pc[t] = "qdeleted"
    /\ pc' = [pc EXCEPT ![t] = "returned"]
    /\ owning' = 0
    /\ UNCHANGED <<ePc, cPc, box, data, frame, works, nextHandle, aborted, log>>

\* schedule, line 61: assert_eq!(status, Ok) fails and the panic unwinds into
\* the caller of schedule.
SchedulePanic(t) ==
    /\ ~aborted
    /\ UNCHANGED <<lifeVars, unitVars>>
    /\ owning = t
    /\ pc[t] = "qdeleted"
    /\ pc' = [pc EXCEPT ![t] = "panicked"]
    /\ owning' = 0
    /\ log' = [log EXCEPT ![t] = Append(@, Ev("panic", 0, "", "owning"))]
    /\ UNCHANGED <<ePc, cPc, box, data, frame, works, nextHandle, aborted>>

----------------------------------------------------------------------------
\* call_execute, lines 107-111: the host runs the execute callback of a queued
\* work item on a pool thread; data.state.take_execute_input().unwrap().  A
\* failed unwrap panics inside the extern "C" callback and ends the process.
CallExecuteTake(t) ==
    /\ ~aborted
    /\ UNCHANGED <<lifeVars, unitVars>>
    /\ HandleOf(t) # 0
    /\ works[HandleOf(t)].st = "queued"
    /\ works' = [works EXCEPT ![HandleOf(t)].st = "running"]
    /\ LET r == take_execute_input(data[t].state) IN
       /\ data' = [data EXCEPT ![t].state = r.self]
       /\ IF r.ret.some
          THEN /\ frame' = [frame EXCEPT ![t].input = r.ret]
               /\ ePc' = [ePc EXCEPT ![t] = "took"]
               /\ UNCHANGED aborted
          ELSE /\ ePc' = [ePc EXCEPT ![t] = "panicked"]
               /\ aborted' = TRUE
               /\ UNCHANGED frame
    /\ UNCHANGED <<pc, cPc, box, nextHandle, owning, log>>

\* call_execute calling the user function a second time.
CallExecuteRunTwice(t) ==
    /\ ~aborted
    /\ UNCHANGED <<lifeVars, unitVars>>
    /\ ePc[t] = "took"
    /\ frame' = [frame EXCEPT ![t].input = None,
                              ![t].output = Some(Execute(data[t].execute, frame[t].input.val))]
    /\ log' = [log EXCEPT ![t] = @ \o <<Ev("execute", frame[t].input.val, data[t].execute, "pool"),
                                        Ev("execute", frame[t].input.val, data[t].execute, "pool")>>]
    /\ ePc' = [ePc EXCEPT ![t] = "ran"]
    /\ UNCHANGED <<pc, cPc, box, data, works, nextHandle, owning, aborted>>

\* call_execute handing the input on as the output.
CallExecuteRunIdentity(t) ==
    /\ ~aborted
    /\ UNCHANGED <<lifeVars, unitVars>>
    /\ ePc[t] = "took"
    /\ frame' = [frame EXCEPT ![t].input = None,
                              ![t].output = Some(frame[t].input.val)]
    /\ log' = [log EXCEPT ![t] = Append(@, Ev("execute", frame[t].input.val, data[t].execute, "pool"))]
    /\ ePc' = [ePc EXCEPT ![t] = "ran"]
    /\ UNCHANGED <<pc, cPc, box, data, works, nextHandle, owning, aborted>>

\* call_execute, line 112: output = (data.execute)(input), on the pool thread.
CallExecuteRun(t) ==
    /\ ~aborted
    /\ UNCHANGED <<lifeVars, unitVars>>
    /\ ePc[t] = "took"
    /\ frame' = [frame EXCEPT ![t].input = None,
                              ![t].output = Some(Execute(data[t].execute, frame[t].input.val))]
    /\ log' = [log EXCEPT ![t] = Append(@, Ev("execute", frame[t].input.val, data[t].execute, "pool"))]
    /\ ePc' = [ePc EXCEPT ![t] = "ran"]
    /\ UNCHANGED <<pc, cPc, box, data, works, nextHandle, owning, aborted>>

\* call_execute returning without installing the output.
CallExecuteNoStore(t) ==
    /\ ~aborted
    /\ UNCHANGED <<lifeVars, unitVars>>
    /\ ePc[t] = "ran"
    /\ frame' = [frame EXCEPT ![t].output = None]
    /\ ePc' = [ePc EXCEPT ![t] = "done"]
    /\ works' = [works EXCEPT ![HandleOf(t)].st = "done"]
    /\ UNCHANGED <<pc, cPc, box, data, nextHandle, owning, aborted, log>>

\* call_execute using the environment it is passed: it calls complete itself,
\* on the pool thread.
CallExecuteStoreAndComplete(t) ==
    /\ ~aborted
    /\ UNCHANGED <<lifeVars, unitVars>>
    /\ ePc[t] = "ran"
    /\ data' = [data EXCEPT ![t].state = Output(frame[t].output.val)]
    /\ frame' = [frame EXCEPT ![t].output = None]
    /\ ePc' = [ePc EXCEPT ![t] = "done"]
    /\ works' = [works EXCEPT ![HandleOf(t)].st = "done"]
    /\ log' = Complete(log, data[t].complete, frame[t].output.val, "pool")
    /\ UNCHANGED <<pc, cPc, box, nextHandle, owning, aborted>>

\* call_execute, lines 114-115: data.state = State::Output(output) and the
\* callback returns to the host, which marks the work item finished.
CallExecuteStore(t) ==
    /\ ~aborted
    /\ UNCHANGED <<lifeVars, unitVars>>
    /\ ePc[t] = "ran"
    /\ data' = [data EXCEPT ![t].state = Output(frame[t].output.val)]
    /\ frame' = [frame EXCEPT ![t].output = None]
    /\ ePc' = [ePc EXCEPT ![t] = "done"]
    /\ works' = [works EXCEPT ![HandleOf(t)].st = "done"]
    /\ UNCHANGED <<pc, cPc, box, nextHandle, owning, aborted, log>>

\* The host cancels a work item that is queued and has not started (environment
\* teardown, napi_cancel_async_work).
HostCancel(t) ==
    /\ ~aborted
    /\ UNCHANGED <<lifeVars, unitVars>>
    /\ HandleOf(t) # 0
    /\ works[HandleOf(t)].st = "queued"
    /\ works' = [works EXCEPT ![HandleOf(t)].st = "cancelled"]
    /\ log' = [log EXCEPT ![t] = Append(@, Ev("cancel", HandleOf(t), "", "host"))]
    /\ UNCHANGED <<pc, ePc, cPc, box, data, frame, nextHandle, owning, aborted>>

\* call_complete taking the record of the task scheduled last instead of the
\* record behind its data pointer.
CallCompleteTakeLatest(t, status) ==
    /\ owning' = t
    /\ frame' = [frame EXCEPT ![t].state = data[NextTask - 1].state,
                              ![t].complete = data[t].complete,
                              ![t].work = data[t].work,
                              ![t].status = status]
    /\ box' = [box EXCEPT ![t] = "freed"]
    /\ data' = [data EXCEPT ![t] = NoData]
    /\ log' = [log EXCEPT ![t] = @ \o <<Ev("call_complete", 0, status, "owning"),
                                        Ev("free", 0, box[t], "owning")>>]
    /\ cPc' = [cPc EXCEPT ![t] = "owned"]

\* call_complete, lines 121-127: called with `status` on the owning thread;
\* *Box::from_raw(data) moves state, complete and work into locals and frees
\* the Box.
CallCompleteTake(t, status) ==
    /\ owning' = t
    /\ frame' = [frame EXCEPT ![t].state = data[t].state,
                              ![t].complete = data[t].complete,
                              ![t].work = data[t].work,
                              ![t].status = status]
    /\ box' = [box EXCEPT ![t] = "freed"]
    /\ data' = [data EXCEPT ![t] = NoData]
    /\ log' = [log EXCEPT ![t] = @ \o <<Ev("call_complete", 0, status, "owning"),
                                        Ev("free", 0, box[t], "owning")>>]
    /\ cPc' = [cPc EXCEPT ![t] = "owned"]

\* The host delivers the completion of a finished or cancelled work item, once,
\* when the owning thread is idle: Ok after execute returned, Cancelled after a
\* cancellation.
HostComplete(t) ==
    /\ ~aborted
    /\ UNCHANGED <<lifeVars, unitVars>>
    /\ owning = 0
    /\ HandleOf(t) # 0
    /\ works[HandleOf(t)].st \in {"done", "cancelled"}
    /\ works' = [works EXCEPT ![HandleOf(t)].st = "completing"]
    /\ CallCompleteTake(t, IF works[HandleOf(t)].st = "done" THEN "Ok" ELSE "Cancelled")
    /\ UNCHANGED <<pc, ePc, nextHandle, aborted>>

\* A host that breaks the status contract: the completion is delivered with a
\* status that is neither Ok nor Cancelled.
HostCompleteOther(t) ==
    /\ ~aborted
    /\ UNCHANGED <<lifeVars, unitVars>>
    /\ owning = 0
    /\ HandleOf(t) # 0
    /\ works[HandleOf(t)].st \in {"done", "cancelled"}
    /\ works' = [works EXCEPT ![HandleOf(t)].st = "completing"]
    /\ \E status \in OtherStatus : CallCompleteTake(t, status)
    /\ UNCHANGED <<pc, ePc, nextHandle, aborted>>

\* call_complete without the call of delete_async_work.
CallCompleteNoDelete(t) ==
    /\ ~aborted
    /\ UNCHANGED <<lifeVars, unitVars>>
    /\ owning = t
    /\ cPc[t] = "owned"
    /\ cPc' = [cPc EXCEPT ![t] = "deleted"]
    /\ UNCHANGED <<pc, ePc, box, data, frame, works, nextHandle, owning, aborted, log>>

\* call_complete deleting the work handle in the Ok arm only.
CallCompleteDeleteIfOk(t) ==
    /\ ~aborted
    /\ UNCHANGED <<lifeVars, unitVars>>
    /\ owning = t
    /\ cPc[t] = "owned"
    /\ IF frame[t].status = "Ok"
       THEN /\ works' = [h \in Handles |->
                           IF h = frame[t].work THEN [works[h] EXCEPT !.st = "deleted"] ELSE works[h]]
            /\ log' = [log EXCEPT ![t] = Append(@, Ev("delete", frame[t].work, "", "owning"))]
       ELSE UNCHANGED <<works, log>>
    /\ cPc' = [cPc EXCEPT ![t] = "deleted"]
    /\ UNCHANGED <<pc, ePc, box, data, frame, nextHandle, owning, aborted>>

\* call_complete, line 129: napi::delete_async_work(env, work).
CallCompleteDelete(t) ==
    /\ ~aborted
    /\ UNCHANGED <<lifeVars, unitVars>>
    /\ owning = t
    /\ cPc[t] = "owned"
    /\ works' = [h \in Handles |->
                    IF h = frame[t].work THEN [works[h] EXCEPT !.st = "deleted"] ELSE works[h]]
    /\ log' = [log EXCEPT ![t] = Append(@, Ev("delete", frame[t].work, "", "owning"))]
    /\ cPc' = [cPc EXCEPT ![t] = "deleted"]
    /\ UNCHANGED <<pc, ePc, box, data, frame, nextHandle, owning, aborted>>

\* A completion status that is not Cancelled is handled like Ok, and a cancelled
\* task's payload is handed to complete.
MatchStatusAlwaysComplete(f) ==
    [panic |-> FALSE, call |-> Some(f.state.val)]

\* A status outside {Ok, Cancelled} is ignored like Cancelled.
MatchStatusLenient(f) ==
    IF f.status = "Ok"
    THEN [panic |-> ~into_output(f.state).some, call |-> into_output(f.state)]
    ELSE [panic |-> FALSE, call |-> None]

\* call_complete, lines 131-137: match status.  Ok: complete is called with
\* state.into_output().unwrap(), and a failed unwrap panics.  Cancelled:
\* nothing.  Any other status: the assertion fails.  `call` is the value
\* complete is called with, if it is called.
MatchStatus(f) ==
    IF f.status = "Ok"
    THEN [panic |-> ~into_output(f.state).some, call |-> into_output(f.state)]
    ELSE IF f.status = "Cancelled"
         THEN [panic |-> FALSE, call |-> None]
         ELSE [panic |-> TRUE, call |-> None]

\* call_complete, lines 131-138: the match on status and the return.  A panic
\* inside the extern "C" callback ends the process; otherwise the locals are
\* dropped on return (an unconsumed state with it).
CallCompleteMatch(t) ==
    /\ ~aborted
    /\ UNCHANGED <<lifeVars, unitVars>>
    /\ owning = t
    /\ cPc[t] = "deleted"
    /\ LET f == frame[t]
           m == MatchStatus(f)
       IN  /\ aborted' = m.panic
           /\ cPc' = [cPc EXCEPT ![t] = IF m.panic THEN "panicked" ELSE "done"]
           /\ log' = IF m.panic THEN log
                     ELSE IF m.call.some
                          THEN Complete(log, f.complete, m.call.val, "owning")
                          ELSE [log EXCEPT ![t] =
                                   Append(@, Ev("drop", f.state.val, f.state.tag, "owning"))]
    /\ frame' = [frame EXCEPT ![t] = NoFrame]
    /\ owning' = 0
    /\ UNCHANGED <<pc, ePc, box, data, works, nextHandle>>

----------------------------------------------------------------------------
(***************************************************************************)
(* src/lifecycle.rs: the per-instance data and its Deferred-Release Queue. *)
(* Each runtime instance has its own owning thread, which runs one         *)
(* InstanceData call at a time; resources are released from any thread     *)
(* through the queue, whose entries the host delivers to DropData::drop.   *)
(***************************************************************************)
NoSlot == [present |-> FALSE, id |-> 0, queue |-> 0]
NoTsfn == [st |-> "none", env |-> 0, referenced |-> FALSE, arc |-> 0, pending |-> {}]
NoRes == [st |-> "none", inst |-> 0, queue |-> 0, variant |-> "", thread |-> 0,
          tornAtEnqueue |-> FALSE, envAtDelivery |-> FALSE, call |-> "",
          deliveries |-> 0]
NoLocal == [queue |-> 0, id |-> 0]
NoHist == [inits |-> 0, ops |-> {}, ids |-> {}, queues |-> {}]

\* The calls made on InstanceData.
Ops == {"get", "id", "drop_queue"}

\* enum DropData: the variant of resource r.
Variant(r) == IF r % 2 = 1 THEN "Ref" ELSE "Deferred"

InitLife ==
    /\ slot = [i \in Instances |-> NoSlot]
    /\ nextId = 0
    /\ tsfn = [q \in Queues |-> NoTsfn]
    /\ torn = [i \in Instances |-> FALSE]
    /\ gPc = [i \in Instances |-> "idle"]
    /\ gLocal = [i \in Instances |-> NoLocal]
    /\ res = [r \in Resources |-> NoRes]
    /\ hist = [i \in Instances |-> NoHist]

\* InstanceId::next returning the counter after the addition.
InstanceIdAddFetch(n) == [id |-> n + 1, next |-> n + 1]

\* InstanceId::next reading the counter without adding to it.
InstanceIdLoad(n) == [id |-> n, next |-> n]

\* InstanceId::next, lines 33-37: NEXT_ID.fetch_add(1, SeqCst), one atomic step.
\* `id` is the identifier returned, `next` the counter afterwards.
InstanceIdNext(n) == [id |-> n, next |-> n + 1]

\* InstanceData::get without the early return: it initialises on every call.
HasInstanceDataNever(d) == FALSE

\* InstanceData::get, lines 94-96: `if let Some(data) = data { return data; }`.
HasInstanceData(d) == d.present

\* DropData::drop without the `if let Some(env)`: it always calls.
DropDataDropNoEnvCheck(envPresent, v) ==
    IF v = "Deferred" THEN "leaked" ELSE "unref"

\* DropData::drop whose Deferred arm does nothing.
DropDataDropRefOnly(envPresent, v) ==
    IF envPresent /\ v = "Ref" THEN "unref" ELSE "none"

\* DropData::drop with the arms of the match exchanged.
DropDataDropSwapped(envPresent, v) ==
    IF envPresent
    THEN IF v = "Deferred" THEN "unref" ELSE "leaked"
    ELSE "none"

\* DropData::drop with the test on the environment inverted.
DropDataDropInverted(envPresent, v) ==
    IF ~envPresent
    THEN IF v = "Deferred" THEN "leaked" ELSE "unref"
    ELSE "none"

\* DropData::drop, lines 69-79: the call made into the environment for a
\* resource of variant v, "none" when nothing is called.
DropDataDrop(envPresent, v) ==
    IF envPresent
    THEN IF v = "Deferred" THEN "leaked" ELSE "unref"
    ELSE "none"

\* The queue objects are numbered in the order of their creation.
NextQueue == Cardinality({q \in Queues : tsfn[q].st # "none"}) + 1
NextResource == Cardinality({r \in Resources : res[r].st # "none"}) + 1

\* InstanceData::get, lines 89-96, called on the owning thread of instance i:
\* get_instance_data(env) and the early return.
GetBegin(i) ==
    /\ UNCHANGED <<asyncVars, unitVars>>
    /\ gPc[i] = "idle"
    /\ ~torn[i]
    /\ IF HasInstanceData(slot[i])
       THEN /\ gPc' = [gPc EXCEPT ![i] = "ret"]
            /\ UNCHANGED hist
       ELSE /\ gPc' = [gPc EXCEPT ![i] = "new"]
            /\ hist' = [hist EXCEPT ![i].inits = @ + 1]
    /\ UNCHANGED <<slot, nextId, tsfn, torn, gLocal, res>>

\* InstanceData::get, lines 98-99: ThreadsafeFunction::new(env, DropData::drop).
\* A new queue is referenced.
GetNewQueue(i) ==
    /\ UNCHANGED <<asyncVars, unitVars>>
    /\ gPc[i] = "new"
    /\ NextQueue \in Queues
    /\ tsfn' = [tsfn EXCEPT ![NextQueue] =
                   [st |-> "live", env |-> i, referenced |-> TRUE, arc |-> 0, pending |-> {}]]
    /\ gLocal' = [gLocal EXCEPT ![i].queue = NextQueue]
    /\ gPc' = [gPc EXCEPT ![i] = "unref"]
    /\ UNCHANGED <<slot, nextId, torn, res, hist>>

\* InstanceData::get without queue.unref(env).
GetSkipUnref(i) ==
    /\ UNCHANGED <<asyncVars, unitVars>>
    /\ gPc[i] = "unref"
    /\ gPc' = [gPc EXCEPT ![i] = "id"]
    /\ UNCHANGED <<slot, nextId, tsfn, torn, gLocal, res, hist>>

\* InstanceData::get, lines 100-102: queue.unref(env).
GetUnref(i) ==
    /\ UNCHANGED <<asyncVars, unitVars>>
    /\ gPc[i] = "unref"
    /\ tsfn' = [tsfn EXCEPT ![gLocal[i].queue].referenced = FALSE]
    /\ gPc' = [gPc EXCEPT ![i] = "id"]
    /\ UNCHANGED <<slot, nextId, torn, gLocal, res, hist>>

\* InstanceData::get, line 112: id: InstanceId::next().
GetNextId(i) ==
    /\ UNCHANGED <<asyncVars, unitVars>>
    /\ gPc[i] = "id"
    /\ gLocal' = [gLocal EXCEPT ![i].id = InstanceIdNext(nextId).id]
    /\ nextId' = InstanceIdNext(nextId).next
    /\ gPc' = [gPc EXCEPT ![i] = "set"]
    /\ UNCHANGED <<slot, tsfn, torn, res, hist>>

\* InstanceData::get, lines 111-118: InstanceData { id, drop_queue:
\* Arc::new(drop_queue) } and set_instance_data(env, data).
GetSetData(i) ==
    /\ UNCHANGED <<asyncVars, unitVars>>
    /\ gPc[i] = "set"
    /\ slot' = [slot EXCEPT ![i] =
                   [present |-> TRUE, id |-> gLocal[i].id, queue |-> gLocal[i].queue]]
    /\ tsfn' = [tsfn EXCEPT ![gLocal[i].queue].arc = 1]
    /\ gPc' = [gPc EXCEPT ![i] = "ret"]
    /\ UNCHANGED <<nextId, torn, gLocal, res, hist>>

\* InstanceData::drop_queue handing out a handle that does not count as a
\* holder of the queue.
GetReturnBorrowed(i, op) ==
    /\ UNCHANGED <<asyncVars, unitVars>>
    /\ gPc[i] = "ret"
    /\ LET d == slot[i]
       IN  /\ hist' = [hist EXCEPT
                          ![i].ops = @ \cup {op},
                          ![i].ids = IF op \in {"get", "id"} THEN @ \cup {d.id} ELSE @,
                          ![i].queues = IF op \in {"get", "drop_queue"} THEN @ \cup {d.queue} ELSE @]
           /\ IF op = "drop_queue"
              THEN /\ NextResource \in Resources
                   /\ res' = [res EXCEPT ![NextResource] =
                                 [NoRes EXCEPT !.st = "held", !.inst = i, !.queue = d.queue,
                                               !.variant = Variant(NextResource)]]
                   /\ UNCHANGED tsfn
              ELSE UNCHANGED <<tsfn, res>>
    /\ gPc' = [gPc EXCEPT ![i] = "idle"]
    /\ gLocal' = [gLocal EXCEPT ![i] = NoLocal]
    /\ UNCHANGED <<slot, nextId, torn>>

\* InstanceData::get returns (line 95 or 118) to the call `op` that made it.
\* "get" hands the data to its caller; InstanceData::id, lines 136-138,
\* returns its id; InstanceData::drop_queue, lines 122-124, returns Arc::clone
\* of its queue, which the caller keeps in the resource it creates.
GetReturn(i, op) ==
    /\ UNCHANGED <<asyncVars, unitVars>>
    /\ gPc[i] = "ret"
    /\ LET d == slot[i]
       IN  /\ hist' = [hist EXCEPT
                          ![i].ops = @ \cup {op},
                          ![i].ids = IF op \in {"get", "id"} THEN @ \cup {d.id} ELSE @,
                          ![i].queues = IF op \in {"get", "drop_queue"} THEN @ \cup {d.queue} ELSE @]
           /\ IF op = "drop_queue"
              THEN /\ NextResource \in Resources
                   /\ tsfn' = [tsfn EXCEPT ![d.queue].arc = @ + 1]
                   /\ res' = [res EXCEPT ![NextResource] =
                                 [NoRes EXCEPT !.st = "held", !.inst = i, !.queue = d.queue,
                                               !.variant = Variant(NextResource)]]
              ELSE UNCHANGED <<tsfn, res>>
    /\ gPc' = [gPc EXCEPT ![i] = "idle"]
    /\ gLocal' = [gLocal EXCEPT ![i] = NoLocal]
    /\ UNCHANGED <<slot, nextId, torn>>

\* One handle on the queue object ts is dropped: Arc<ThreadsafeFunction>
\* counts its holders and drops the queue object with the last one.
ArcDrop(ts) ==
    [ts EXCEPT !.arc = ts.arc - 1,
               !.st = IF ts.arc = 1 THEN "dropped" ELSE ts.st]

\* The last reference to resource r is dropped on thread th (0: the owning
\* thread, r: a thread of its own): the resource is sent to its queue and the
\* queue handle it held is dropped.
Enqueue(r, th) ==
    /\ UNCHANGED <<asyncVars, unitVars>>
    /\ res[r].st = "held"
    /\ th = 0 => gPc[res[r].inst] = "idle"
    /\ res' = [res EXCEPT ![r].st = "queued", ![r].thread = th,
                          ![r].tornAtEnqueue = torn[res[r].inst]]
    /\ tsfn' = [tsfn EXCEPT ![res[r].queue] = ArcDrop([@ EXCEPT !.pending = @ \cup {r}])]
    /\ UNCHANGED <<slot, nextId, torn, gPc, gLocal, hist>>

\* The host delivers one entry of a queue to DropData::drop, lines 69-79, on
\* the owning thread, with the environment, or without it after teardown.
Deliver(r) ==
    /\ UNCHANGED <<asyncVars, unitVars>>
    /\ res[r].st = "queued"
    /\ r \in tsfn[res[r].queue].pending
    /\ gPc[res[r].inst] = "idle"
    /\ tsfn' = [tsfn EXCEPT ![res[r].queue].pending = @ \ {r}]
    /\ res' = [res EXCEPT ![r].st = "delivered",
                          ![r].envAtDelivery = ~torn[res[r].inst],
                          ![r].call = DropDataDrop(~torn[res[r].inst], res[r].variant),
                          ![r].deliveries = @ + 1]
    /\ UNCHANGED <<slot, nextId, torn, gPc, gLocal, hist>>

\* The host tears down the environment of instance i, which no referenced
\* queue keeps alive, and reclaims its instance data, and with it the handle
\* the data holds on the queue.
Teardown(i) ==
    /\ UNCHANGED <<asyncVars, unitVars>>
    /\ gPc[i] = "idle"
    /\ ~torn[i]
    /\ \A q \in Queues : (tsfn[q].st # "none" /\ tsfn[q].env = i) => ~tsfn[q].referenced
    /\ torn' = [torn EXCEPT ![i] = TRUE]
    /\ tsfn' = [q \in Queues |->
                   IF slot[i].present /\ slot[i].queue = q
                   THEN ArcDrop(tsfn[q])
                   ELSE tsfn[q]]
    /\ UNCHANGED <<slot, nextId, gPc, gLocal, res, hist>>

\* The instance that creates resources.
QueueInstances == {1}

\* The runtime instances of the process, each on its own thread.
NextLife ==
    \/ \E i \in Instances : GetBegin(i)
    \/ \E i \in Instances : GetNewQueue(i)
    \/ \E i \in Instances : GetUnref(i)
    \/ \E i \in Instances : GetNextId(i)
    \/ \E i \in Instances : GetSetData(i)
    \/ \E i \in Instances : \E op \in {"get", "id"} : GetReturn(i, op)
    \/ \E i \in Instances : Teardown(i)

\* One runtime instance, the resources created in it and its queue.
NextDrop ==
    \/ \E i \in QueueInstances : GetBegin(i)
    \/ \E i \in QueueInstances : GetNewQueue(i)
    \/ \E i \in QueueInstances : GetUnref(i)
    \/ \E i \in QueueInstances : GetNextId(i)
    \/ \E i \in QueueInstances : GetSetData(i)
    \/ \E i \in QueueInstances : \E op \in Ops : GetReturn(i, op)
    \/ \E r \in Resources : \E th \in {0, r} : Enqueue(r, th)
    \/ \E r \in Resources : Deliver(r)
    \/ \E i \in QueueInstances : Teardown(i)

\* The owning thread of an instance runs on, and the host delivers every
\* entry of a queue: its event loop runs whenever the thread leaves a call.
FairnessDrop ==
    /\ \A i \in QueueInstances :
          /\ WF_vars(GetNewQueue(i))
          /\ WF_vars(GetUnref(i))
          /\ WF_vars(GetNextId(i))
          /\ WF_vars(GetSetData(i))
          /\ WF_vars(\E op \in Ops : GetReturn(i, op))
    /\ \A r \in Resources : SF_vars(Deliver(r))

----------------------------------------------------------------------------
(***************************************************************************)
(* State<T, O> on its own: take_execute_input and into_output applied, in  *)
(* any order and any number of times, to a state of any variant.           *)
(***************************************************************************)
MaxPayload == 6
MaxCalls == 3
Payloads == 0..MaxPayload

\* A state that into_output has consumed.
Moved == [tag |-> "Moved", val |-> 0]

States == {Executing} \cup {Input(v) : v \in Payloads} \cup {Output(v) : v \in Payloads}

InitUnit ==
    /\ st = Executing
    /\ yields = <<>>

\* data.state.take_execute_input()
UnitTake ==
    /\ UNCHANGED <<asyncVars, lifeVars>>
    /\ st # Moved
    /\ Len(yields) < MaxCalls
    /\ st' = take_execute_input(st).self
    /\ yields' = Append(yields, [fn |-> "take", from |-> st, ret |-> take_execute_input(st).ret])

\* state.into_output()
UnitInto ==
    /\ UNCHANGED <<asyncVars, lifeVars>>
    /\ st # Moved
    /\ Len(yields) < MaxCalls
    /\ st' = Moved
    /\ yields' = Append(yields, [fn |-> "into", from |-> st, ret |-> into_output(st)])

\* data.state = State::Output(output), line 114, after the input was taken.
UnitStore(v) ==
    /\ UNCHANGED <<asyncVars, lifeVars>>
    /\ st = Executing
    /\ Len(yields) < MaxCalls
    /\ st' = Output(v)
    /\ yields' = Append(yields, [fn |-> "store", from |-> st, ret |-> None])

NextUnit ==
    \/ UnitTake
    \/ UnitInto
    \/ \E v \in Payloads : UnitStore(v)

----------------------------------------------------------------------------
\* The steps of the program under a host that honours the status contract.
Next ==
    \E t \in Tasks :
        \/ ScheduleBox(t)
        \/ ScheduleCreate(t)
        \/ ScheduleQueue(t)
        \/ ScheduleReturn(t)
        \/ ScheduleDelete(t)
        \/ SchedulePanic(t)
        \/ CallExecuteTake(t)
        \/ CallExecuteRun(t)
        \/ CallExecuteStore(t)
        \/ HostCancel(t)
        \/ HostComplete(t)
        \/ CallCompleteDelete(t)
        \/ CallCompleteMatch(t)

\* The steps of the program under any host.
NextAny ==
    \/ Next
    \/ \E t \in Tasks : HostCompleteOther(t)

Init == InitAsync /\ InitLife /\ InitUnit

\* Any host: completion statuses outside {Ok, Cancelled} may be delivered.
Spec == Init /\ [][NextAny]_vars

\* A host that honours the status contract.
SpecContract == Init /\ [][Next]_vars

\* The host's pool and event loop make progress: a queued work item that is
\* not cancelled is started, a started execute returns, a finished or
\* cancelled item is delivered, and code on the owning thread runs on.
Fairness ==
    \A t \in Tasks :
        /\ WF_vars(ScheduleCreate(t))
        /\ WF_vars(ScheduleQueue(t))
        /\ WF_vars(ScheduleReturn(t))
        /\ WF_vars(ScheduleDelete(t))
        /\ WF_vars(SchedulePanic(t))
        /\ WF_vars(CallExecuteTake(t))
        /\ WF_vars(CallExecuteRun(t))
        /\ WF_vars(CallExecuteStore(t))
        /\ WF_vars(HostComplete(t))
        /\ WF_vars(CallCompleteDelete(t))
        /\ WF_vars(CallCompleteMatch(t))

FairSpec == Init /\ [][Next]_vars /\ Fairness

\* The instance data of the runtime instances.
SpecLife == Init /\ [][NextLife]_vars

\* One instance and its Deferred-Release Queue.
SpecDrop == Init /\ [][NextDrop]_vars
FairSpecDrop == Init /\ [][NextDrop]_vars /\ FairnessDrop

\* The transition functions applied to a state of any variant.
InitState ==
    /\ InitAsync
    /\ InitLife
    /\ st \in States
    /\ yields = <<>>

SpecState == InitState /\ [][NextUnit]_vars

----------------------------------------------------------------------------
\* What the history says about a task.
Queued(t) == Has(t, "queue", "Ok")
QueueFailed(t) == \E i \in DOMAIN log[t] : log[t][i].ev = "queue" /\ log[t][i].st # "Ok"
Cancelled(t) == Count(t, "cancel") > 0
AllocEv(t) == log[t][Pos(t, "alloc")]
CreatedHandle(t) == log[t][Pos(t, "create")].val
\* The names of the events of task t from its i-th event on.
EvsFrom(t, i) == [k \in 1..(Len(log[t]) - i + 1) |-> log[t][k + i - 1].ev]

----------------------------------------------------------------------------
C1_Safe ==
    \A t \in Tasks :
        /\ Count(t, "execute") <= 1
        /\ Count(t, "call_complete") <= 1
        /\ Count(t, "call_complete") = 1 => Queued(t)
        /\ (Count(t, "execute") = 1 /\ Count(t, "call_complete") = 1)
              => Pos(t, "execute") < Pos(t, "call_complete")

\* C1: for every task that schedule queued, the user execute function runs at
\* most once, the complete trampoline call_complete runs at most once and,
\* under a fair host, eventually runs (so exactly once), and when both ran,
\* execute ran before the trampoline.
C1_ExecuteAtMostOnceTrampolineExactlyOnce ==
    /\ []C1_Safe
    /\ \A t \in Tasks : Queued(t) ~> (Count(t, "call_complete") = 1)

\* C1 witness: a task whose execute and whose trampoline both ran.
C1_Witness ==
    \E t \in Tasks :
        /\ Count(t, "execute") = 1
        /\ Count(t, "call_complete") = 1
        /\ cPc[t] = "done"

\* C2: complete is called at most once per task, only after the trampoline was
\* delivered with Ok, on the owning thread, with the value execute returns for
\* the input given to schedule; and once the trampoline delivered with Ok has
\* finished, complete was called exactly once.
C2_CompleteGetsExecuteOutputOnce ==
    \A t \in Tasks :
        /\ Count(t, "complete") <= 1
        /\ \A i \in DOMAIN log[t] :
              log[t][i].ev = "complete" =>
                 /\ log[t][i].val = Execute(AllocEv(t).st, AllocEv(t).val)
                 /\ log[t][i].thread = "owning"
                 /\ Has(t, "call_complete", "Ok")
                 /\ Pos(t, "call_complete") < i
        /\ (cPc[t] = "done" /\ Has(t, "call_complete", "Ok")) => Count(t, "complete") = 1

\* C2 witness: schedule(5, |x| x * 2, ..) completed and complete recorded 10, once.
C2_Witness ==
    \E t \in Tasks :
        /\ Count(t, "complete") = 1
        /\ AllocEv(t).val = 5
        /\ AllocEv(t).st = "double"
        /\ log[t][Pos(t, "complete")].val = 10

\* C3: for a task the host cancelled before its execute started, execute never
\* runs and the state never becomes Output, the trampoline is delivered with
\* Cancelled only, complete is never called, and the finished trampoline has
\* taken the record, deleted the task's work handle once and dropped the
\* unexecuted state, and nothing else.
C3_CancelledNeverCompletes ==
    \A t \in Tasks :
        Cancelled(t) =>
            /\ Count(t, "execute") = 0
            /\ ePc[t] = "idle"
            /\ data[t].state.tag # "Output"
            /\ frame[t].state.tag # "Output"
            /\ ~frame[t].output.some
            /\ Count(t, "complete") = 0
            /\ \A i \in DOMAIN log[t] :
                  log[t][i].ev = "call_complete" => log[t][i].st = "Cancelled"
            /\ cPc[t] = "done" =>
                  /\ Count(t, "delete") = 1
                  /\ log[t][Pos(t, "delete")].val = CreatedHandle(t)
                  /\ EvsFrom(t, Pos(t, "call_complete"))
                        = <<"call_complete", "free", "delete", "drop">>

\* C3 witness: the trampoline of a cancelled task has finished.
C3_Witness ==
    \E t \in Tasks : Cancelled(t) /\ cPc[t] = "done"

\* C4: for a queued task the record is freed and the work handle deleted only
\* inside the complete trampoline, never twice, and once the trampoline has
\* passed delete_async_work both have happened exactly once, whatever the
\* status.
C4_SingleReclamationPoint ==
    \A t \in Tasks :
        Queued(t) =>
            /\ Count(t, "free") <= 1
            /\ Count(t, "delete") <= 1
            /\ \A i \in DOMAIN log[t] : log[t][i].ev = "free" => log[t][i].st = "live"
            /\ cPc[t] = "idle" => (box[t] = "live" /\ Count(t, "delete") = 0)
            /\ box[t] = "freed" => Count(t, "call_complete") = 1
            /\ cPc[t] \in {"deleted", "done", "panicked"} =>
                  /\ box[t] = "freed"
                  /\ Count(t, "free") = 1
                  /\ Count(t, "delete") = 1
                  /\ log[t][Pos(t, "delete")].val = CreatedHandle(t)
                  /\ works[CreatedHandle(t)].st = "deleted"

\* C4 witness: one task completed with Ok and one with Cancelled, both reclaimed.
C4_Witness ==
    \E t1, t2 \in Tasks :
        /\ Has(t1, "call_complete", "Ok") /\ cPc[t1] = "done"
        /\ Has(t2, "call_complete", "Cancelled") /\ cPc[t2] = "done"
        /\ box[t1] = "freed" /\ box[t2] = "freed"

\* C5: when queue_async_work fails, after schedule has faulted neither the
\* Task Record nor the native work handle of that task is still allocated.
C5_QueueFailureReleasesEverything ==
    \A t \in Tasks :
        (QueueFailed(t) /\ pc[t] = "panicked") =>
            /\ works[CreatedHandle(t)].st = "deleted"
            /\ box[t] # "live"

\* C6: when queue_async_work fails, schedule deletes the work handle and then
\* faults; it never returns normally for a task that was not queued, and no
\* trampoline and no user function ever runs for that task.
C6_QueueFailureIsFatal ==
    \A t \in Tasks :
        /\ pc[t] = "returned" => Queued(t)
        /\ QueueFailed(t) =>
              /\ pc[t] \in {"qfail", "qdeleted", "panicked"}
              /\ pc[t] = "panicked" =>
                    /\ Count(t, "delete") = 1
                    /\ Count(t, "panic") = 1
                    /\ Pos(t, "delete") < Pos(t, "panic")
                    /\ log[t][Pos(t, "delete")].val = CreatedHandle(t)
              /\ ePc[t] = "idle"
              /\ cPc[t] = "idle"
              /\ Count(t, "execute") = 0
              /\ Count(t, "call_complete") = 0
              /\ Count(t, "complete") = 0

\* C6 witness: queueing failed and schedule has faulted.
C6_Witness ==
    \E t \in Tasks : QueueFailed(t) /\ pc[t] = "panicked"

\* C7: when the trampoline is delivered with a status that is neither Ok nor
\* Cancelled, complete is never called for that task, and once the trampoline
\* has examined the status the process is terminated.
C7_UnexpectedStatusIsFatal ==
    \A t \in Tasks :
        (\E i \in DOMAIN log[t] :
            log[t][i].ev = "call_complete" /\ log[t][i].st \in OtherStatus) =>
            /\ Count(t, "complete") = 0
            /\ \/ cPc[t] \in {"owned", "deleted"}
               \/ cPc[t] = "panicked" /\ aborted

\* C7 witness: a task whose execute produced an output was delivered with an
\* unexpected status and the process is terminated.
C7_Witness ==
    \E t \in Tasks :
        /\ Count(t, "execute") = 1
        /\ Has(t, "call_complete", "GenericFailure")
        /\ cPc[t] = "panicked"
        /\ aborted

\* C8: call_complete never overlaps call_execute of the same task: once the
\* trampoline has started, call_execute has either finished, and the state the
\* trampoline took is Output, or never started, and the state is Input; it is
\* never Executing.
C8_ExecuteAndCompleteNeverOverlap ==
    \A t \in Tasks :
        cPc[t] # "idle" =>
            /\ ePc[t] \in {"idle", "done"}
            /\ cPc[t] \in {"owned", "deleted"} =>
                  /\ frame[t].state.tag \in {"Input", "Output"}
                  /\ frame[t].state.tag = "Output" <=> ePc[t] = "done"

\* C8 witness: the trampoline has started after call_execute finished.
C8_Witness ==
    \E t \in Tasks : cPc[t] = "owned" /\ ePc[t] = "done"

\* C9: a task whose execute has begun is never cancelled nor delivered with
\* Cancelled, and under a fair host its trampoline is eventually delivered
\* with Ok and its complete function is called.
C9_StartedExecuteReachesComplete ==
    /\ [](\A t \in Tasks :
            ePc[t] # "idle" => (~Cancelled(t) /\ ~Has(t, "call_complete", "Cancelled")))
    /\ \A t \in Tasks :
          (ePc[t] # "idle") ~> (Has(t, "call_complete", "Ok") /\ Count(t, "complete") = 1)

\* C9 witness: execute ran and complete was called.
C9_Witness ==
    \E t \in Tasks : ePc[t] = "done" /\ Count(t, "complete") = 1

\* C10: after queueing, schedule can return at once, whatever the progress of
\* the task; no trampoline and no complete call of a task happens before its
\* schedule call has returned; complete is only called on the owning thread.
C10_ScheduleDoesNotBlock ==
    \A t \in Tasks :
        /\ (pc[t] = "queued" /\ ~aborted) => ENABLED ScheduleReturn(t)
        /\ cPc[t] # "idle" => pc[t] = "returned"
        /\ Count(t, "complete") > 0 => pc[t] = "returned"
        /\ \A i \in DOMAIN log[t] :
              log[t][i].ev = "complete" => log[t][i].thread = "owning"

\* C10 witness: one schedule call has returned while its work item is still
\* merely queued, and a task's complete function ran after its schedule call
\* had returned.
C10_Witness ==
    \E t \in Tasks :
        /\ pc[t] = "returned"
        /\ Count(t, "complete") = 1
        /\ \E u \in Tasks :
              /\ pc[u] = "returned"
              /\ ePc[u] = "idle"
              /\ works[CreatedHandle(u)].st = "queued"

\* C11: of two tasks queued on the same instance either may complete first, and
\* in every interleaving the tasks have distinct work handles, complete of a
\* task is called only with the value its own execute returns for its own
\* input, on its own record and callback, and the record of each task is
\* freed and its own handle deleted at most once, exactly once when its
\* trampoline has finished.
C11_TasksAreIndependent ==
    \A t \in Tasks :
        Queued(t) =>
            /\ \A u \in Tasks \ {t} : Queued(u) => CreatedHandle(u) # CreatedHandle(t)
            /\ \A i \in DOMAIN log[t] :
                  /\ log[t][i].ev = "complete" =>
                        log[t][i].val = Execute(AllocEv(t).st, AllocEv(t).val)
                  /\ log[t][i].ev = "delete" => log[t][i].val = CreatedHandle(t)
                  /\ log[t][i].ev = "free" => log[t][i].st = "live"
            /\ Count(t, "free") <= 1
            /\ Count(t, "delete") <= 1
            /\ cPc[t] = "done" =>
                  /\ Count(t, "free") = 1
                  /\ Count(t, "delete") = 1
                  /\ box[t] = "freed"
                  /\ works[CreatedHandle(t)].st = "deleted"
                  /\ Has(t, "call_complete", "Ok") => Count(t, "complete") = 1

\* C11 witness: two tasks with different inputs and functions were queued; the
\* one scheduled second has completed with its own value and is reclaimed
\* while the one scheduled first has not started.
C11_Witness ==
    /\ Queued(1) /\ Queued(2)
    /\ AllocEv(1).val # AllocEv(2).val
    /\ AllocEv(1).st # AllocEv(2).st
    /\ ePc[1] = "idle" /\ cPc[1] = "idle"
    /\ works[CreatedHandle(1)].st = "queued"
    /\ cPc[2] = "done"
    /\ Count(2, "complete") = 1
    /\ log[2][Pos(2, "complete")].val = Execute(AllocEv(2).st, AllocEv(2).val)
    /\ box[2] = "freed"

\* The work handles that exist, and the events of task t that are calls into
\* the environment.
LiveHandles(w) == {h \in Handles : w[h].st \notin {"free", "deleted"}}
EnvEvents == {"create", "queue", "delete", "complete", "call_complete", "free", "panic"}
EnvCalls(l) == {i \in DOMAIN l : l[i].ev \in EnvEvents}

\* C17: a step of call_execute for task t (a step that moves ePc[t]) leaves the
\* state the environment manages as it was: no work handle is created, deleted
\* or re-pointed, no record is allocated or freed, the owning thread, schedule
\* and call_complete of every task stay where they are, no call into the
\* environment is logged (the only event added is the user's execute, on the
\* pool thread), and of all records only the state field of t's own changes.
C17_ExecuteLeavesEnvironmentAlone ==
    [][\A t \in Tasks :
          ePc'[t] # ePc[t] =>
             /\ LiveHandles(works') = LiveHandles(works)
             /\ \A h \in Handles : works'[h].data = works[h].data
             /\ \A h \in Handles \ {HandleOf(t)} : works'[h] = works[h]
             /\ nextHandle' = nextHandle
             /\ box' = box
             /\ owning' = owning
             /\ pc' = pc
             /\ cPc' = cPc
             /\ \A u \in Tasks \ {t} :
                   data'[u] = data[u] /\ frame'[u] = frame[u] /\ log'[u] = log[u]
             /\ [data'[t] EXCEPT !.state = data[t].state] = data[t]
             /\ EnvCalls(log'[t]) = EnvCalls(log[t])
             /\ \A i \in DOMAIN log'[t] \ DOMAIN log[t] :
                   log'[t][i].ev = "execute" /\ log'[t][i].thread = "pool"
             /\ \A i \in DOMAIN log[t] : log'[t][i] = log[t][i]
    ]_vars

\* C17 witness: call_execute has run to its end for a task: the record holds
\* Output of the value execute returned and nothing else of it has changed.
C17_Witness ==
    \E t \in Tasks :
        /\ ePc[t] = "done"
        /\ cPc[t] = "idle"
        /\ data[t].state = Output(Execute(AllocEv(t).st, AllocEv(t).val))
        /\ data[t].execute = AllocEv(t).st
        /\ box[t] = "live"
        /\ works[CreatedHandle(t)].data = t

\* C18: under a host that honours the contract neither trampoline faults:
\* the process is never aborted, a work item the host may start has a record
\* in state Input, call_execute has taken an input whenever it has started,
\* a finished work item has a record in state Output, and call_complete
\* running with status Ok holds state Output, so that into_output yields.
C18_NoContractViolation ==
    /\ ~aborted
    /\ \A t \in Tasks :
          /\ ePc[t] # "panicked"
          /\ cPc[t] # "panicked"
          /\ (HandleOf(t) # 0 /\ works[HandleOf(t)].st = "queued") =>
                 /\ data[t].state.tag = "Input"
                 /\ take_execute_input(data[t].state).ret = Some(AllocEv(t).val)
          /\ ePc[t] = "took" => frame[t].input = Some(AllocEv(t).val)
          /\ (HandleOf(t) # 0 /\ works[HandleOf(t)].st = "done") =>
                 data[t].state.tag = "Output"
          /\ (cPc[t] \in {"owned", "deleted"} /\ frame[t].status = "Ok") =>
                 /\ frame[t].state.tag = "Output"
                 /\ into_output(frame[t].state).some
                 /\ ~MatchStatus(frame[t]).panic

\* C18 witness: call_execute took the input of a task and call_complete,
\* delivered with Ok, is about to match on the status holding Output.
C18_Witness ==
    \E t \in Tasks :
        /\ Count(t, "execute") = 1
        /\ cPc[t] = "deleted"
        /\ frame[t].status = "Ok"
        /\ into_output(frame[t].state) = Some(Execute(AllocEv(t).st, AllocEv(t).val))

C19_Safe ==
    \A t \in Tasks :
        /\ Count(t, "call_complete") <= 1
        /\ Has(t, "call_complete", "Ok") =>
              /\ ePc[t] = "done"
              /\ Count(t, "execute") = 1
              /\ cPc[t] \in {"owned", "deleted"} => frame[t].state.tag = "Output"
              /\ cPc[t] = "done" => Count(t, "complete") = 1
        /\ Has(t, "call_complete", "Cancelled") =>
              /\ ePc[t] = "idle"
              /\ Count(t, "execute") = 0
              /\ Count(t, "complete") = 0
        /\ ePc[t] = "done" => ~Has(t, "call_complete", "Cancelled")

Yielding == {k \in DOMAIN yields : yields[k].ret.some}

Enqueued == {r \in Resources : res[r].st \in {"queued", "delivered"}}
Delivered == {r \in Resources : res[r].st = "delivered"}
Release(v) == IF v = "Deferred" THEN "leaked" ELSE "unref"

\* The safety part of C12.
C12_Safe ==
    \A r \in Resources :
        /\ res[r].deliveries <= 1
        /\ res[r].st \in {"none", "held"} =>
              /\ res[r].deliveries = 0
              /\ \A q \in Queues : r \notin tsfn[q].pending
        /\ res[r].st = "queued" =>
              /\ res[r].deliveries = 0
              /\ res[r].queue = slot[res[r].inst].queue
              /\ \A q \in Queues : r \in tsfn[q].pending <=> q = res[r].queue
        /\ res[r].st = "delivered" =>
              /\ res[r].deliveries = 1
              /\ \A q \in Queues : r \notin tsfn[q].pending
              /\ res[r].envAtDelivery => res[r].call = Release(res[r].variant)
              /\ ~res[r].envAtDelivery => res[r].call = "none"

\* C12: a resource sent to the Deferred-Release Queue of its instance, from the
\* owning thread or from any other, stays in that queue until it is delivered,
\* is eventually delivered, and is delivered once: DropData::drop then
\* releases it (unref, leaked) if the environment is present and drops it
\* without a call if the environment was torn down.
C12_EnqueuedIsDeliveredOnce ==
    /\ []C12_Safe
    /\ \A r \in Resources : (res[r].st = "queued") ~> (res[r].st = "delivered")

\* C12 witness: R1 and R2 were sent from two different threads, neither the
\* owning one, and both have been delivered and released, once each.
C12_Witness ==
    /\ res[1].st = "delivered" /\ res[2].st = "delivered"
    /\ res[1].thread = 1 /\ res[2].thread = 2
    /\ res[1].call = "unref" /\ res[2].call = "leaked"
    /\ res[1].deliveries = 1 /\ res[2].deliveries = 1

\* C13 as stated: a delivered resource that was enqueued before teardown was
\* delivered with a present environment, and one enqueued after teardown with
\* an absent environment.
C13_EnqueuedBeforeTeardownIsReleased ==
    \A r \in Delivered :
        /\ ~res[r].tornAtEnqueue => res[r].envAtDelivery
        /\ res[r].tornAtEnqueue => (~res[r].envAtDelivery /\ res[r].call = "none")

\* C13, amended: every delivery is one invocation of DropData::drop.  While
\* the environment is present and the queue is drained, the N resources
\* enqueued so far had exactly N invocations, each with a present environment
\* and each releasing its resource.  A resource delivered after teardown,
\* enqueued before it or after it, has one invocation with an absent
\* environment, which calls nothing; one enqueued after teardown is never
\* delivered with an environment.
C13_DeliveredBeforeTeardownIsReleased ==
    /\ \A r \in Delivered :
          /\ res[r].deliveries = 1
          /\ res[r].envAtDelivery =>
                (~res[r].tornAtEnqueue /\ res[r].call = Release(res[r].variant))
          /\ ~res[r].envAtDelivery => (torn[res[r].inst] /\ res[r].call = "none")
          /\ res[r].tornAtEnqueue => ~res[r].envAtDelivery
    /\ \A i \in Instances :
          (~torn[i] /\ \A q \in Queues : tsfn[q].pending = {}) =>
              \A r \in Enqueued :
                  res[r].inst = i =>
                     (res[r].st = "delivered" /\ res[r].envAtDelivery /\ res[r].deliveries = 1)

\* C13 witness: one resource was enqueued and delivered before teardown, with
\* the environment, and one was enqueued and delivered after it, without.
C13_Witness ==
    \E r1, r2 \in Delivered :
        /\ ~res[r1].tornAtEnqueue /\ res[r1].envAtDelivery
        /\ res[r1].call = Release(res[r1].variant)
        /\ res[r2].tornAtEnqueue /\ ~res[r2].envAtDelivery
        /\ res[r2].call = "none"

\* C14: DropData::drop without an environment calls nothing, whatever the
\* variant: a resource delivered after teardown had one invocation, which made
\* neither the unref nor the leaked call, and it is gone from the queue.
C14_NoEnvironmentNoCall ==
    /\ \A v \in {"Ref", "Deferred"} : DropDataDrop(FALSE, v) = "none"
    /\ \A r \in Delivered :
          ~res[r].envAtDelivery =>
              /\ res[r].call = "none"
              /\ res[r].deliveries = 1
              /\ r \notin tsfn[res[r].queue].pending

\* C14 witness: a Ref and a Deferred were both delivered without environment.
C14_Witness ==
    \E r1, r2 \in Delivered :
        /\ res[r1].variant = "Ref" /\ res[r2].variant = "Deferred"
        /\ ~res[r1].envAtDelivery /\ ~res[r2].envAtDelivery
        /\ torn[res[r1].inst] /\ torn[res[r2].inst]

\* What the calls on an instance have returned so far agrees with its slot.
C15_Safe ==
    \A i \in Instances :
        /\ hist[i].inits <= 1
        /\ Cardinality(hist[i].ids) <= 1
        /\ Cardinality(hist[i].queues) <= 1
        /\ hist[i].ops # {} =>
              /\ slot[i].present
              /\ hist[i].inits = 1
              /\ hist[i].ids \subseteq {slot[i].id}
              /\ hist[i].queues \subseteq {slot[i].queue}
        /\ \A r \in Resources :
              (res[r].st # "none" /\ res[r].inst = i) => res[r].queue = slot[i].queue
        /\ Cardinality({q \in Queues : tsfn[q].st # "none" /\ tsfn[q].env = i}) <= 1

\* The instance data, the identifier counter and the set of queues change only
\* on the path that initialises an instance without data.
C15_Step ==
    \A i \in Instances :
        /\ slot'[i] # slot[i] => (~slot[i].present /\ gPc[i] = "set" /\ hist[i].ops = {})
        /\ (\E q \in Queues : tsfn[q].env # i /\ tsfn'[q].env = i) =>
              (~slot[i].present /\ gPc[i] = "new")
        /\ (nextId' # nextId /\ gPc[i] = "id") => ~slot[i].present

\* C15: on one instance every call of InstanceData::get, id and drop_queue
\* returns the same identifier and the same queue object, the ones in the
\* slot; the instance is initialised at most once, by its first call, and
\* only that path writes the slot, takes an identifier or creates a queue.
C15_RegistryIsIdempotent ==
    /\ []C15_Safe
    /\ [][C15_Step]_vars

\* C15 witness: get, id and drop_queue were all called on an instance,
\* drop_queue twice, after one initialisation.
C15_Witness ==
    \E i \in Instances :
        /\ hist[i].ops = Ops
        /\ hist[i].inits = 1
        /\ hist[i].ids = {slot[i].id}
        /\ hist[i].queues = {slot[i].queue}
        /\ Cardinality({r \in Resources : res[r].inst = i /\ res[r].queue = slot[i].queue}) >= 2

\* C16: two instances that are initialised, or are about to install their
\* data, hold different identifiers and different queue objects, and each
\* queue belongs to the environment of its instance.
C16_InstancesAreDistinct ==
    \A i, j \in Instances :
        LET di == IF slot[i].present THEN slot[i] ELSE [NoSlot EXCEPT !.id = gLocal[i].id, !.queue = gLocal[i].queue]
            dj == IF slot[j].present THEN slot[j] ELSE [NoSlot EXCEPT !.id = gLocal[j].id, !.queue = gLocal[j].queue]
        IN  (i # j /\ (slot[i].present \/ gPc[i] = "set") /\ (slot[j].present \/ gPc[j] = "set")) =>
                /\ di.id # dj.id
                /\ di.queue # dj.queue
                /\ tsfn[di.queue].env = i
                /\ tsfn[dj.queue].env = j

\* C16 witness: two instances ran their initialisation interleaved: the one
\* that created its queue first took its identifier second.
C16_Witness ==
    \E i, j \in Instances :
        /\ slot[i].present /\ slot[j].present
        /\ slot[i].queue < slot[j].queue
        /\ slot[j].id < slot[i].id

\* The places that hold a payload of task t: its live record, the locals of
\* call_execute and the state moved into call_complete.
PayloadHolders(t) ==
    {x \in {"record", "input", "output", "moved"} :
        \/ x = "record" /\ box[t] = "live" /\ data[t].state.tag \in {"Input", "Output"}
        \/ x = "input" /\ frame[t].input.some
        \/ x = "output" /\ frame[t].output.some
        \/ x = "moved" /\ frame[t].state.tag \in {"Input", "Output"}}

\* The states of C21.
C21_Safe ==
    \A t \in Tasks :
        /\ Cardinality(PayloadHolders(t)) <= 1
        /\ box[t] = "live" =>
              /\ data[t].state.tag = "Input" <=> ePc[t] = "idle"
              /\ data[t].state.tag = "Executing" <=> ePc[t] \in {"took", "ran"}
              /\ data[t].state.tag = "Output" <=> ePc[t] = "done"
              /\ data[t].state.tag = "Executing" => Cardinality(PayloadHolders(t)) = 1

\* The steps of C21.
C21_Step ==
    \A t \in Tasks :
        /\ (box[t] = "unalloc" /\ box'[t] = "live") => data'[t].state.tag = "Input"
        /\ (box[t] = "live" /\ box'[t] = "live" /\ data'[t].state # data[t].state) =>
              \/ data[t].state.tag = "Input" /\ data'[t].state = Executing
              \/ data[t].state = Executing /\ data'[t].state.tag = "Output"
        /\ (box[t] = "live" /\ box'[t] = "freed") =>
              \/ data[t].state.tag = "Output"
              \/ data[t].state.tag = "Input" /\ Cancelled(t)
        /\ box[t] = "freed" => box'[t] = "freed"

\* C21: a task's payload is in one place at most (the record as Input or
\* Output, a local of call_execute, or the state moved into call_complete);
\* a live record is in state Executing exactly while call_execute is between
\* taking the input and installing the output, and then the payload is in a
\* local of call_execute; otherwise it is Input (execute not started) or
\* Output (execute returned); and the state of a record moves only from Input
\* to Executing to Output, and is freed from Output, or from Input when the
\* task was cancelled.
C21_StateSequence ==
    /\ []C21_Safe
    /\ [][C21_Step]_vars

\* C21 witness: call_execute holds the output in a local while the record is
\* in state Executing, and another task's record was freed from Output.
C21_Witness ==
    \E t, u \in Tasks :
        /\ ePc[t] = "ran"
        /\ box[t] = "live"
        /\ data[t].state = Executing
        /\ PayloadHolders(t) = {"output"}
        /\ box[u] = "freed"
        /\ Count(u, "complete") = 1

\* The states of C22: the task positions from which schedule still reads or
\* writes the record, and those in which call_execute does.
SchedulerHolds(t) == pc[t] \in {"boxed", "created", "qfail"}
PoolHolds(t) == ePc[t] \in {"took", "ran"}

C22_Safe ==
    \A t \in Tasks :
        /\ SchedulerHolds(t) => (box[t] = "live" /\ ePc[t] = "idle" /\ cPc[t] = "idle")
        /\ PoolHolds(t) => (box[t] = "live" /\ cPc[t] = "idle" /\ pc[t] \in {"queued", "returned"})
        /\ ePc[t] # "idle" => pc[t] \in {"queued", "returned"}
        /\ cPc[t] # "idle" =>
              (box[t] = "freed" /\ ~SchedulerHolds(t) /\ ~PoolHolds(t)
               /\ pc[t] \in {"queued", "returned"})
        /\ box[t] = "freed" => data[t] = NoData
        /\ (ENABLED ScheduleQueue(t) \/ ENABLED ScheduleDelete(t)) =>
              (SchedulerHolds(t) /\ works[data[t].work].st = "created")

\* The steps of C22: who changes the record, or frees it.
C22_Step ==
    \A t \in Tasks :
        (data'[t] # data[t] \/ box'[t] # box[t]) =>
            \/ pc[t] \in {"none", "boxed"} /\ pc'[t] # pc[t] /\ ePc[t] = "idle" /\ cPc[t] = "idle"
            \/ ePc'[t] # ePc[t] /\ ePc[t] \in {"idle", "ran"} /\ ~SchedulerHolds(t) /\ cPc[t] = "idle"
            \/ cPc[t] = "idle" /\ cPc'[t] = "owned" /\ ~SchedulerHolds(t) /\ ~PoolHolds(t)

\* C22: the record of a task is with one actor at a time, in this order:
\* schedule up to the successful queue_async_work (or through the deletion on
\* its failure), call_execute between taking the input and installing the
\* output, and call_complete, which takes the record and frees it in one
\* step.  While schedule still has an access ahead neither trampoline has
\* started; while call_execute holds the record call_complete has not
\* started; schedule leaves the record alone once the task is queued,
\* call_execute once it has returned, and nobody touches a freed record.
C22_OneActorAtATime ==
    /\ []C22_Safe
    /\ [][C22_Step]_vars

\* C22 witness: the record of a task went through all three actors:
\* schedule returned, execute ran on the pool, and call_complete freed it.
C22_Witness ==
    \E t \in Tasks :
        /\ pc[t] = "returned"
        /\ Count(t, "execute") = 1
        /\ ePc[t] = "done"
        /\ cPc[t] = "done"
        /\ box[t] = "freed"
        /\ data[t] = NoData

\* C23: the work field of a record is null until create_async_work has
\* succeeded and from then on holds the handle created for the record, which
\* points back to it; a record the host may hand to a trampoline, and the
\* copy call_complete takes, hold that handle; and queue_async_work and
\* delete_async_work are called with that handle only.
C23_WorkHandleIsTheOneCreated ==
    \A t \in Tasks :
        /\ pc[t] = "boxed" => (data[t].work = 0 /\ HandleOf(t) = 0)
        /\ (pc[t] \notin {"none", "boxed", "panicked"} \/ Count(t, "queue") > 0) =>
              /\ CreatedHandle(t) # 0
              /\ works[CreatedHandle(t)].data = t
              /\ HandleOf(t) = CreatedHandle(t)
              /\ box[t] = "live" => data[t].work = CreatedHandle(t)
              /\ cPc[t] \in {"owned", "deleted"} => frame[t].work = CreatedHandle(t)
        /\ \A i \in DOMAIN log[t] :
              log[t][i].ev \in {"queue", "delete"} =>
                 /\ Count(t, "create") = 1
                 /\ Pos(t, "create") < i
                 /\ log[t][i].val = CreatedHandle(t)
                 /\ log[t][i].val # 0

\* C23 witness: call_complete of the task scheduled second deleted the handle
\* that was created and queued for it.
C23_Witness ==
    /\ cPc[2] = "deleted"
    /\ Count(2, "queue") = 1 /\ Count(2, "delete") = 1
    /\ log[2][Pos(2, "queue")].val = log[2][Pos(2, "delete")].val
    /\ log[2][Pos(2, "delete")].val = CreatedHandle(2)
    /\ works[CreatedHandle(2)].data = 2

\* C28: call_complete frees the record and deletes the work handle, in this
\* order, before it looks at the status: when it reaches the match, and
\* whatever the match then does (Ok, Cancelled, or a fault on an unexpected
\* status), both have happened exactly once; and a call of the user's
\* complete comes after both.
C28_ReleaseBeforeStatus ==
    \A t \in Tasks :
        /\ cPc[t] \in {"deleted", "done", "panicked"} =>
              /\ box[t] = "freed"
              /\ Count(t, "call_complete") = 1
              /\ Count(t, "free") = 1
              /\ Count(t, "delete") = 1
              /\ Pos(t, "call_complete") < Pos(t, "free")
              /\ Pos(t, "free") < Pos(t, "delete")
              /\ works[log[t][Pos(t, "delete")].val].st = "deleted"
        /\ cPc[t] = "owned" =>
              (box[t] = "freed" /\ Count(t, "delete") = 0 /\ Count(t, "complete") = 0)
        /\ \A i \in DOMAIN log[t] :
              log[t][i].ev = "complete" =>
                 /\ Count(t, "free") = 1 /\ Pos(t, "free") < i
                 /\ Count(t, "delete") = 1 /\ Pos(t, "delete") < i

\* C28 witness: one call_complete ran with Ok and called complete after the
\* release, and one faulted on an unexpected status after the release.
C28_Witness ==
    \E t, u \in Tasks :
        /\ Count(t, "complete") = 1
        /\ Pos(t, "delete") < Pos(t, "complete")
        /\ cPc[u] = "panicked"
        /\ log[u][Pos(u, "call_complete")].st \in OtherStatus
        /\ Count(u, "delete") = 1
        /\ box[u] = "freed"

\* The times the input of task t was dropped unexecuted.
DroppedInput(t) == {i \in DOMAIN log[t] : log[t][i].ev = "drop" /\ log[t][i].st = "Input"}

\* C29: the input given to schedule is passed to execute at most once, on a
\* pool thread, or dropped unexecuted at most once, by call_complete on the
\* owning thread of a cancelled task, never both; and when call_complete has
\* finished exactly one of the two has happened.
C29_InputConsumedOnce ==
    \A t \in Tasks :
        /\ Count(t, "execute") + Cardinality(DroppedInput(t)) <= 1
        /\ \A i \in DOMAIN log[t] :
              log[t][i].ev = "execute" =>
                 (log[t][i].val = AllocEv(t).val /\ log[t][i].thread = "pool")
        /\ \A i \in DroppedInput(t) :
              /\ log[t][i].val = AllocEv(t).val
              /\ log[t][i].thread = "owning"
              /\ Cancelled(t)
              /\ Has(t, "call_complete", "Cancelled")
              /\ Pos(t, "call_complete") < i
        /\ cPc[t] = "done" =>
              Count(t, "execute") + Cardinality(DroppedInput(t)) = 1
        /\ Count(t, "execute") = 1 => ~frame[t].input.some /\ data[t].state.tag # "Input"

\* C29 witness: the input of one task went into execute and that of another,
\* cancelled, was dropped by call_complete.
C29_Witness ==
    \E t, u \in Tasks :
        /\ cPc[t] = "done" /\ Count(t, "execute") = 1 /\ DroppedInput(t) = {}
        /\ cPc[u] = "done" /\ Count(u, "execute") = 0 /\ Cardinality(DroppedInput(u)) = 1

\* create_async_work returned a status other than Ok for task t.
CreateFailed(t) == \E i \in DOMAIN log[t] : log[t][i].ev = "create" /\ log[t][i].st # "Ok"

\* C30: when create_async_work fails, schedule has faulted at once: no work
\* handle exists for the task, queue_async_work was not called, and neither
\* trampoline has run or will run for it.
C30_CreateFailureIsFatal ==
    \A t \in Tasks :
        CreateFailed(t) =>
            /\ pc[t] = "panicked"
            /\ owning # t
            /\ log[t][Len(log[t])].ev = "create"
            /\ Count(t, "queue") = 0
            /\ HandleOf(t) = 0
            /\ ePc[t] = "idle" /\ cPc[t] = "idle"
            /\ Count(t, "execute") = 0
            /\ Count(t, "call_complete") = 0
            /\ Count(t, "complete") = 0
            /\ ~ENABLED CallExecuteTake(t)
            /\ ~ENABLED HostComplete(t)

\* C30 witness: create_async_work failed for the task scheduled second while
\* the first one, scheduled before it, completed.
C30_Witness ==
    /\ CreateFailed(2)
    /\ pc[2] = "panicked"
    /\ Count(1, "complete") = 1

\* The states of C24.
C24_Safe ==
    /\ \A i \in Instances :
          /\ slot[i].present =>
                (tsfn[slot[i].queue].st # "none" /\ ~tsfn[slot[i].queue].referenced)
          /\ (gPc[i] = "idle" /\ ~torn[i]) => ENABLED Teardown(i)
    /\ \A q \in Queues :
          tsfn[q].referenced =>
              (gPc[tsfn[q].env] = "unref" /\ gLocal[tsfn[q].env].queue = q
               /\ ~slot[tsfn[q].env].present /\ tsfn[q].pending = {})

\* The steps of C24: a queue that is unreferenced stays so.
C24_Step ==
    \A q \in Queues : (tsfn[q].st # "none" /\ ~tsfn[q].referenced) => ~tsfn'[q].referenced

\* C24: a queue is referenced only between its creation and the unref that
\* follows it inside InstanceData::get, before the data is installed;
\* whenever instance data exists its queue is unreferenced, no later step
\* (calls, enqueues, deliveries) references it again, and an instance whose
\* thread is not inside a call can always be shut down.
C24_QueueIsUnreferenced ==
    /\ []C24_Safe
    /\ [][C24_Step]_vars

\* C24 witness: an instance with data and an idle, unreferenced queue that
\* was used before was shut down.
C24_Witness ==
    \E i \in Instances :
        /\ slot[i].present
        /\ ~tsfn[slot[i].queue].referenced
        /\ tsfn[slot[i].queue].pending = {}
        /\ \E r \in Delivered : res[r].queue = slot[i].queue /\ res[r].envAtDelivery
        /\ torn[i]

\* The resources that hold a handle on queue q.
Holders(q) == {r \in Resources : res[r].st = "held" /\ res[r].queue = q}

\* C25: the queue of an instance has one counted holder per resource that
\* holds a handle from drop_queue, plus the instance data until the host
\* reclaims it; all these handles are to the queue in the slot; the queue
\* object exists exactly as long as it has a holder; so a resource that has
\* not yet been sent finds its queue alive, also after teardown.
C25_QueueOutlivesInstance ==
    /\ \A i \in Instances :
          slot[i].present =>
              LET q == slot[i].queue IN
              /\ tsfn[q].arc = Cardinality(Holders(q)) + (IF torn[i] THEN 0 ELSE 1)
              /\ tsfn[q].st = "live" <=> tsfn[q].arc > 0
              /\ tsfn[q].st = "dropped" <=> tsfn[q].arc = 0
    /\ \A r \in Resources :
          res[r].st = "held" =>
              /\ res[r].queue = slot[res[r].inst].queue
              /\ tsfn[res[r].queue].st = "live"
              /\ tsfn[res[r].queue].arc >= 1

\* C25 witness: after the teardown of its instance a resource was sent to the
\* queue and another still holds the last handle on the queue, which is alive.
C25_Witness ==
    \E r1, r2 \in Resources :
        /\ res[r1].st = "held"
        /\ torn[res[r1].inst]
        /\ tsfn[res[r1].queue].st = "live"
        /\ tsfn[res[r1].queue].arc = 1
        /\ res[r2].st \in {"queued", "delivered"}
        /\ res[r2].tornAtEnqueue
        /\ res[r2].queue = res[r1].queue

\* C26: DropData::drop with an environment makes one call, the one of the
\* variant: unref for a Ref and leaked for a Deferred, never the other one and
\* never none; and a resource delivered with an environment had exactly that
\* one call.
C26_ReleaseByVariant ==
    /\ DropDataDrop(TRUE, "Ref") = "unref"
    /\ DropDataDrop(TRUE, "Deferred") = "leaked"
    /\ \A r \in Delivered :
          res[r].envAtDelivery =>
              /\ res[r].deliveries = 1
              /\ res[r].variant = "Ref" => res[r].call = "unref"
              /\ res[r].variant = "Deferred" => res[r].call = "leaked"
              /\ res[r].variant \in {"Ref", "Deferred"}

\* C26 witness: a Ref was unreferenced and a Deferred marked leaked, both in
\* a present environment.
C26_Witness ==
    \E r1, r2 \in Delivered :
        /\ res[r1].envAtDelivery /\ res[r1].variant = "Ref" /\ res[r1].call = "unref"
        /\ res[r2].envAtDelivery /\ res[r2].variant = "Deferred" /\ res[r2].call = "leaked"
        /\ ~torn[res[r1].inst]

\* The instances whose data is installed, those that have taken an
\* identifier, and the identifier an instance has taken.
Initialised == {i \in Instances : slot[i].present}
Taken == {i \in Instances : slot[i].present \/ gPc[i] = "set"}
IdOf(i) == IF slot[i].present THEN slot[i].id ELSE gLocal[i].id

\* C27 as stated: after n instances have been initialised their identifiers
\* are exactly 0..n-1.
C27_InitialisedIdsAreDense ==
    {slot[i].id : i \in Initialised} = 0..(Cardinality(Initialised) - 1)

\* The states of the amended C27.
C27_Safe ==
    /\ nextId = Cardinality(Taken)
    /\ {IdOf(i) : i \in Taken} = 0..(nextId - 1)
    /\ \A i, j \in Taken : i # j => IdOf(i) # IdOf(j)
    /\ Taken = Initialised =>
          {slot[i].id : i \in Initialised} = 0..(Cardinality(Initialised) - 1)

\* The steps of the amended C27.
C27_Step ==
    /\ nextId' \in {nextId, nextId + 1}
    /\ nextId' # nextId =>
          \E i \in Instances :
              /\ ~slot[i].present /\ gPc[i] = "id" /\ gPc'[i] = "set"
              /\ gLocal'[i].id = nextId
    /\ \A i \in Instances :
          /\ slot[i].present => (slot'[i].present /\ slot'[i].id = slot[i].id)
          /\ (i \in Taken /\ i \in Taken') => IdOf(i)' = IdOf(i)

\* C27, amended: the counter starts at 0 and grows by 1 exactly when an
\* initialisation takes its identifier, so identifiers follow the order of
\* first access, not of creation, and repeated calls take none; the
\* instances that have taken an identifier, installed or still about to
\* install their data, hold exactly 0..n-1; the initialised instances alone
\* hold exactly 0..n-1 whenever no initialisation is between taking its
\* identifier and installing its data.
C27_IdsFollowFirstAccess ==
    /\ []C27_Safe
    /\ [][C27_Step]_vars

\* C27 witness: the instance created second was accessed first and holds 0,
\* the one created first holds 1, and repeated calls on both took no further
\* identifier.
C27_Witness ==
    /\ slot[1].present /\ slot[2].present
    /\ slot[2].id = 0 /\ slot[1].id = 1
    /\ hist[1].ops = {"get", "id"} /\ hist[2].ops = {"get", "id"}
    /\ nextId = 2

\* The state that call k on the record left behind.
StateAfter(k) == IF k < Len(yields) THEN yields[k + 1].from ELSE st

\* C31: take_execute_input leaves Executing behind whatever state it is
\* applied to: on Input(v) it returns v, on Executing and on Output(v) it
\* returns nothing, and an Output payload it was applied to is gone from the
\* record afterwards; this holds for the function on every state and for
\* every take made on a record.
C31_TakeLeavesExecuting ==
    /\ \A s \in States :
          /\ take_execute_input(s).self = Executing
          /\ take_execute_input(s).ret = IF s.tag = "Input" THEN Some(s.val) ELSE None
    /\ \A k \in DOMAIN yields :
          yields[k].fn = "take" =>
             /\ StateAfter(k) = Executing
             /\ yields[k].from.tag = "Input" => yields[k].ret = Some(yields[k].from.val)
             /\ yields[k].from.tag \in {"Executing", "Output"} => yields[k].ret = None
             /\ yields[k].from.tag = "Output" => StateAfter(k) # yields[k].from

\* C31 witness: a take on Input(2) returned 2, an output was stored, and a
\* second take, on Output(5), returned nothing and left Executing.
C31_Witness ==
    /\ Len(yields) = 3
    /\ yields[1].fn = "take" /\ yields[1].from = Input(2) /\ yields[1].ret = Some(2)
    /\ yields[2].fn = "store"
    /\ yields[3].fn = "take" /\ yields[3].from = Output(5) /\ yields[3].ret = None
    /\ st = Executing

====
